---- MODULE Spec2Model ----
(***************************************************************************)
(* A model of parallelism/thread_scheduler.py: class Job.                  *)
(*                                                                         *)
(* One Job is three kinds of control path over shared attributes:          *)
(*   - the supervisory loop thread (Job._loop),                            *)
(*   - one Timer thread per armed execution (Job._wrapper),                *)
(*   - the caller, who may call stop() and clear_exception() at any time.  *)
(* No attribute is protected by a lock, so every read and every write of   *)
(* a shared attribute is a step of its own and the steps of the threads    *)
(* interleave freely.                                                      *)
(*                                                                         *)
(* Time is counted in ticks of 1/TicksPerSecond second and kept relative   *)
(* to the clock: a sleeping loop, a waiting Timer and next_execution_at    *)
(* each hold the ticks that remain, and Tick lets one tick pass.  The      *)
(* epoch 0 that __init__ stores in next_execution_at lies in the past, and *)
(* every moment in the past is one value, Past, since the code reads the   *)
(* difference only while time() < next_execution_at.  sleep()              *)
(* and Timer guarantee a minimal wait and no maximal one, so a thread may  *)
(* be late by any amount but is never early.                               *)
(***************************************************************************)
EXTENDS Integers, Sequences, FiniteSets

\* ---------------------------------------------------------------- bounds
\* ticks per second of the model's clock
TicksPerSecond == 2
\* every_seconds ranges over 0..MaxEvery ticks
MaxEvery == 2
\* max_crashes ranges over 0..MaxK
MaxK == 2
\* max_runs ranges over -1..MaxN
MaxN == 1
\* invocations of the function beyond MaxCalls are not explored
MaxCalls == 3
\* Timer threads that can exist at once
NTimers == 2

Timers == 1..NTimers

\* ------------------------------------------------------ program constants
\* sleep(1) at the end of every iteration of _loop, in seconds
PollSeconds == 1
\* the delay _loop arms when next_execution_at is not in the future, in seconds
DefaultDelay == 1

StatusValues == {"INITIATED", "SCHEDULED", "RUNNING", "COMPLETED", "FAILED", "TERMINATED"}

VARIABLES
    \* constructor arguments
    every_seconds,      \* in ticks
    max_crashes,
    max_runs,
    \* attributes of the Job
    status,
    stop_event,         \* _stop_event.is_set()
    crashed,
    runs,
    next_execution_at,  \* next_execution_at - time() in ticks; Past once it is negative
    exception_list,     \* _exception_list: one record per caught failure (the invocation's number)
    job,                \* self.job: the Timer last created (0: None)
    \* the loop thread
    l_pc,
    terminate,
    l_val,              \* the value line 108 is about to store
    execute_in_seconds,
    l_rem,              \* next_execution_at - time() as line 118 reads it after its test
    sleep_left,         \* ticks of sleep(1) that remain
    \* the Timer threads
    w_pc,
    timer_left,         \* ticks of the Timer's interval that remain
    held,               \* the thread has loaded self._exception_list and it is still the Job's list
    \* history
    calls,              \* invocations of the function
    fails,              \* invocations that raised
    stopCalled,         \* the caller has called stop()
    stopBetween,        \* the caller has called stop() while no execution was running
    sinceClear,         \* invocations that raised since the last clear_exception() (or construction)
    propagated          \* a _wrapper has ended by raising

cfgVars == <<every_seconds, max_crashes, max_runs>>
jobVars == <<status, stop_event, crashed, runs, next_execution_at, exception_list, job>>
loopVars == <<l_pc, terminate, l_val, execute_in_seconds, l_rem, sleep_left>>
wrapVars == <<w_pc, timer_left, held>>
histVars == <<calls, fails, stopCalled, stopBetween, sinceClear, propagated>>
vars == <<cfgVars, jobVars, loopVars, wrapVars, histVars>>

\* ---------------------------------------------------------------- helpers
\* Python's round() of ticks/TicksPerSecond seconds: nearest integer, ties to even
Round(ticks) ==
    LET q == ticks \div TicksPerSecond
        r == ticks % TicksPerSecond
    IN  IF 2 * r < TicksPerSecond THEN q
        ELSE IF 2 * r > TicksPerSecond THEN q + 1
        ELSE IF q % 2 = 0 THEN q ELSE q + 1

Dec(n) == IF n > 0 THEN n - 1 ELSE n

\* next_execution_at - time() once time() < next_execution_at is false: every such
\* moment is this one value, a second in the past
Past == 0 - TicksPerSecond

\* the difference next_execution_at - time(), in ticks, as the model keeps it
Remaining(ticks) == IF ticks > 0 THEN ticks ELSE Past

\* next_execution_at - time() one tick later
Later(remaining) == Remaining(remaining - 1)

\* the Timer threads that run _wrapper (their Timer has fired)
Running == {t \in Timers : w_pc[t] \notin {"idle", "timer"}}
\* the Timer threads that exist
Active == {t \in Timers : w_pc[t] # "idle"}
\* invocations of the function that have returned normally
Returned == calls - fails - Cardinality({t \in Timers : w_pc[t] = "function"})

\* the exception property: None when the list is empty, the list otherwise
Exception ==
    IF Len(exception_list) = 0
        THEN [none |-> TRUE, list |-> <<>>]
        ELSE [none |-> FALSE, list |-> exception_list]

\* ------------------------------------------------------------------- Init
\* Job.__init__ has returned and the loop thread is at the top of _loop
Init ==
    /\ every_seconds \in 0..MaxEvery
    /\ max_crashes \in 0..MaxK
    /\ max_runs \in -1..MaxN
    /\ status = "INITIATED"
    /\ stop_event = FALSE
    /\ crashed = 0
    /\ runs = 0
    /\ next_execution_at = Past
    /\ exception_list = <<>>
    /\ job = 0
    /\ l_pc = "l105"
    /\ terminate = FALSE
    /\ l_val = "none"
    /\ execute_in_seconds = 0
    /\ l_rem = 0
    /\ sleep_left = 0
    /\ w_pc = [t \in Timers |-> "idle"]
    /\ timer_left = [t \in Timers |-> 0]
    /\ held = [t \in Timers |-> FALSE]
    /\ calls = 0
    /\ fails = 0
    /\ stopCalled = FALSE
    /\ stopBetween = FALSE
    /\ sinceClear = 0
    /\ propagated = FALSE

\* ------------------------------------------------------------ Job._loop
\* sleep(1), line 123: the loop thread starts to sleep
Sleep ==
    /\ l_pc' = "l123"
    /\ sleep_left' = PollSeconds * TicksPerSecond

\* line 105: if self._stop_event.is_set()
Loop105 ==
    /\ l_pc = "l105"
    /\ l_pc' = IF stop_event THEN "l108" ELSE "l111"
    /\ UNCHANGED <<terminate, l_val, execute_in_seconds, l_rem, sleep_left>>
    /\ UNCHANGED <<cfgVars, jobVars, wrapVars, histVars>>

\* line 108, the condition: self.status != "FAILED"
Loop108 ==
    /\ l_pc = "l108"
    /\ IF status # "FAILED"
         THEN l_val' = "TERMINATED" /\ l_pc' = "l108s"
         ELSE l_val' = l_val /\ l_pc' = "l108e"
    /\ UNCHANGED <<terminate, execute_in_seconds, l_rem, sleep_left>>
    /\ UNCHANGED <<cfgVars, jobVars, wrapVars, histVars>>

\* line 108, the else operand: self.status is read again
Loop108Else ==
    /\ l_pc = "l108e"
    /\ l_val' = status
    /\ l_pc' = "l108s"
    /\ UNCHANGED <<terminate, execute_in_seconds, l_rem, sleep_left>>
    /\ UNCHANGED <<cfgVars, jobVars, wrapVars, histVars>>

\* line 108, the store into self.status; line 109: terminate = True; line 123
Loop108Store ==
    /\ l_pc = "l108s"
    /\ status' = l_val
    /\ terminate' = TRUE
    /\ Sleep
    /\ UNCHANGED <<l_val, execute_in_seconds, l_rem>>
    /\ UNCHANGED <<stop_event, crashed, runs, next_execution_at, exception_list, job>>
    /\ UNCHANGED <<cfgVars, wrapVars, histVars>>

\* line 111: elif self.status in ["RUNNING","SCHEDULED"]
Loop111 ==
    /\ l_pc = "l111"
    /\ IF status \in {"RUNNING", "SCHEDULED"}
         THEN Sleep
         ELSE l_pc' = "l115" /\ sleep_left' = sleep_left
    /\ UNCHANGED <<terminate, l_val, execute_in_seconds, l_rem>>
    /\ UNCHANGED <<cfgVars, jobVars, wrapVars, histVars>>

\* line 115: elif self.status in ["COMPLETED","INITIATED"]
Loop115 ==
    /\ l_pc = "l115"
    /\ IF status \in {"COMPLETED", "INITIATED"}
         THEN l_pc' = "l118" /\ sleep_left' = sleep_left
         ELSE Sleep
    /\ UNCHANGED <<terminate, l_val, execute_in_seconds, l_rem>>
    /\ UNCHANGED <<cfgVars, jobVars, wrapVars, histVars>>

\* line 118, the condition: time() < self.next_execution_at; the else operand: 1
Loop118 ==
    /\ l_pc = "l118"
    /\ IF next_execution_at > 0
         THEN /\ l_pc' = "l118r"
              /\ l_rem' = next_execution_at
              /\ execute_in_seconds' = execute_in_seconds
         ELSE /\ l_pc' = "l119"
              /\ l_rem' = l_rem
              /\ execute_in_seconds' = DefaultDelay
    /\ UNCHANGED <<terminate, l_val, sleep_left>>
    /\ UNCHANGED <<cfgVars, jobVars, wrapVars, histVars>>

\* line 118, the operand: round(self.next_execution_at - time()), time() read again
Loop118Round ==
    /\ l_pc = "l118r"
    /\ execute_in_seconds' = Round(IF next_execution_at > 0 THEN next_execution_at ELSE l_rem)
    /\ l_rem' = 0
    /\ l_pc' = "l119"
    /\ UNCHANGED <<terminate, l_val, sleep_left>>
    /\ UNCHANGED <<cfgVars, jobVars, wrapVars, histVars>>

\* lines 119-120: self.job = Timer(execute_in_seconds, self._wrapper); self.job.start()
Loop119 ==
    /\ l_pc = "l119"
    /\ \E t \in Timers :
         /\ w_pc[t] = "idle"
         /\ \A u \in Timers : u < t => w_pc[u] # "idle"
         /\ w_pc' = [w_pc EXCEPT ![t] = "timer"]
         /\ timer_left' = [timer_left EXCEPT ![t] = execute_in_seconds * TicksPerSecond]
         /\ job' = t
    /\ l_pc' = "l121"
    /\ execute_in_seconds' = 0
    /\ UNCHANGED <<terminate, l_val, l_rem, sleep_left, held>>
    /\ UNCHANGED <<status, stop_event, crashed, runs, next_execution_at, exception_list>>
    /\ UNCHANGED <<cfgVars, histVars>>

\* Loop121 that does not mark the Job SCHEDULED
Loop121NoMark ==
    /\ l_pc = "l121"
    /\ Sleep
    /\ UNCHANGED <<terminate, l_val, execute_in_seconds, l_rem>>
    /\ UNCHANGED <<cfgVars, jobVars, wrapVars, histVars>>

\* line 121: self.status = "SCHEDULED"; line 123
Loop121 ==
    /\ l_pc = "l121"
    /\ status' = "SCHEDULED"
    /\ Sleep
    /\ UNCHANGED <<terminate, l_val, execute_in_seconds, l_rem>>
    /\ UNCHANGED <<stop_event, crashed, runs, next_execution_at, exception_list, job>>
    /\ UNCHANGED <<cfgVars, wrapVars, histVars>>

\* line 123 returns; line 104: while True and not(terminate)
Loop123 ==
    /\ l_pc = "l123"
    /\ sleep_left = 0
    /\ l_pc' = IF terminate THEN "exited" ELSE "l105"
    /\ UNCHANGED <<terminate, l_val, execute_in_seconds, l_rem, sleep_left>>
    /\ UNCHANGED <<cfgVars, jobVars, wrapVars, histVars>>

Loop ==
    \/ Loop105
    \/ Loop108
    \/ Loop108Else
    \/ Loop108Store
    \/ Loop111
    \/ Loop115
    \/ Loop118
    \/ Loop118Round
    \/ Loop119
    \/ Loop121
    \/ Loop123

\* --------------------------------------------------------- Job._wrapper
Goto(t, label) == w_pc' = [w_pc EXCEPT ![t] = label]

\* the Timer's interval has passed; line 79: self.status = "RUNNING"
Wrapper79(t) ==
    /\ w_pc[t] = "timer"
    /\ timer_left[t] <= 0
    /\ calls < MaxCalls
    /\ status' = "RUNNING"
    /\ Goto(t, "l82")
    /\ timer_left' = [timer_left EXCEPT ![t] = 0]
    /\ UNCHANGED held
    /\ UNCHANGED <<stop_event, crashed, runs, next_execution_at, exception_list, job>>
    /\ UNCHANGED <<cfgVars, loopVars, histVars>>

\* line 82: self.next_execution_at = time() + self.every_seconds
Wrapper82(t) ==
    /\ w_pc[t] = "l82"
    /\ next_execution_at' = Remaining(every_seconds)
    /\ Goto(t, "l83")
    /\ UNCHANGED <<timer_left, held>>
    /\ UNCHANGED <<status, stop_event, crashed, runs, exception_list, job>>
    /\ UNCHANGED <<cfgVars, loopVars, histVars>>

\* line 83: self.function(**self.kwargs) is called
Wrapper83(t) ==
    /\ w_pc[t] = "l83"
    /\ calls' = calls + 1
    /\ Goto(t, "function")
    /\ UNCHANGED <<fails, stopCalled, stopBetween, sinceClear, propagated>>
    /\ UNCHANGED <<timer_left, held>>
    /\ UNCHANGED <<cfgVars, jobVars, loopVars>>

\* the function returns
FunctionReturns(t) ==
    /\ w_pc[t] = "function"
    /\ Goto(t, "l84")
    /\ UNCHANGED <<timer_left, held>>
    /\ UNCHANGED <<cfgVars, jobVars, loopVars, histVars>>

\* the function raises; line 88: except, line 90: the traceback is logged
FunctionRaises(t) ==
    /\ w_pc[t] = "function"
    /\ fails' = fails + 1
    /\ sinceClear' = sinceClear + 1
    /\ Goto(t, "l91")
    /\ UNCHANGED <<calls, stopCalled, stopBetween, propagated>>
    /\ UNCHANGED <<timer_left, held>>
    /\ UNCHANGED <<cfgVars, jobVars, loopVars>>

\* Wrapper84 that leaves crashed as it is
Wrapper84NoReset(t) ==
    /\ w_pc[t] = "l84"
    /\ Goto(t, "l85")
    /\ UNCHANGED <<timer_left, held>>
    /\ UNCHANGED <<cfgVars, jobVars, loopVars, histVars>>

\* line 84: self.crashed = 0
Wrapper84(t) ==
    /\ w_pc[t] = "l84"
    /\ crashed' = 0
    /\ Goto(t, "l85")
    /\ UNCHANGED <<timer_left, held>>
    /\ UNCHANGED <<status, stop_event, runs, next_execution_at, exception_list, job>>
    /\ UNCHANGED <<cfgVars, loopVars, histVars>>

\* line 85: self.runs += 1
Wrapper85(t) ==
    /\ w_pc[t] = "l85"
    /\ runs' = runs + 1
    /\ Goto(t, "l86")
    /\ UNCHANGED <<timer_left, held>>
    /\ UNCHANGED <<status, stop_event, crashed, next_execution_at, exception_list, job>>
    /\ UNCHANGED <<cfgVars, loopVars, histVars>>

\* lines 86-87: if self.every_seconds==0 or self.runs==self.max_runs: self.stop()
Wrapper86(t) ==
    /\ w_pc[t] = "l86"
    /\ stop_event' = (stop_event \/ every_seconds = 0 \/ runs = max_runs)
    /\ Goto(t, "l94")
    /\ UNCHANGED <<timer_left, held>>
    /\ UNCHANGED <<status, crashed, runs, next_execution_at, exception_list, job>>
    /\ UNCHANGED <<cfgVars, loopVars, histVars>>

\* line 91: self._exception_list is loaded, then traceback.format_exc() is called
Wrapper91Load(t) ==
    /\ w_pc[t] = "l91"
    /\ held' = [held EXCEPT ![t] = TRUE]
    /\ Goto(t, "l91a")
    /\ UNCHANGED timer_left
    /\ UNCHANGED <<cfgVars, jobVars, loopVars, histVars>>

\* line 91: .append(...) on the list that was loaded
Wrapper91Append(t) ==
    /\ w_pc[t] = "l91a"
    /\ exception_list' = IF held[t] THEN Append(exception_list, fails) ELSE exception_list
    /\ held' = [held EXCEPT ![t] = FALSE]
    /\ Goto(t, "l92")
    /\ UNCHANGED timer_left
    /\ UNCHANGED <<status, stop_event, crashed, runs, next_execution_at, job>>
    /\ UNCHANGED <<cfgVars, loopVars, histVars>>

\* line 92: self.crashed += 1
Wrapper92(t) ==
    /\ w_pc[t] = "l92"
    /\ crashed' = crashed + 1
    /\ Goto(t, "l94")
    /\ UNCHANGED <<timer_left, held>>
    /\ UNCHANGED <<status, stop_event, runs, next_execution_at, exception_list, job>>
    /\ UNCHANGED <<cfgVars, loopVars, histVars>>

\* Wrapper94 with the ceiling test written >= instead of >
Wrapper94AtCeiling(t) ==
    /\ w_pc[t] = "l94"
    /\ IF crashed >= max_crashes
         THEN status' = "FAILED" /\ Goto(t, "l96")
         ELSE status' = "COMPLETED" /\ Goto(t, "idle")
    /\ UNCHANGED <<timer_left, held>>
    /\ UNCHANGED <<stop_event, crashed, runs, next_execution_at, exception_list, job>>
    /\ UNCHANGED <<cfgVars, loopVars, histVars>>

\* lines 94-95: if self.crashed > self.max_crashes: self.status = "FAILED"
\* line 99 otherwise: self.status = "COMPLETED", and _wrapper returns
Wrapper94(t) ==
    /\ w_pc[t] = "l94"
    /\ IF crashed > max_crashes
         THEN status' = "FAILED" /\ Goto(t, "l96")
         ELSE status' = "COMPLETED" /\ Goto(t, "idle")
    /\ UNCHANGED <<timer_left, held>>
    /\ UNCHANGED <<stop_event, crashed, runs, next_execution_at, exception_list, job>>
    /\ UNCHANGED <<cfgVars, loopVars, histVars>>

\* Wrapper96 that raises without calling self.stop()
Wrapper96NoStop(t) ==
    /\ w_pc[t] = "l96"
    /\ propagated' = TRUE
    /\ Goto(t, "idle")
    /\ UNCHANGED <<calls, fails, stopCalled, stopBetween, sinceClear>>
    /\ UNCHANGED <<timer_left, held>>
    /\ UNCHANGED <<cfgVars, jobVars, loopVars>>

\* line 96: self.stop(); line 97: raise Exception(...), which ends the Timer thread
Wrapper96(t) ==
    /\ w_pc[t] = "l96"
    /\ stop_event' = TRUE
    /\ propagated' = TRUE
    /\ Goto(t, "idle")
    /\ UNCHANGED <<calls, fails, stopCalled, stopBetween, sinceClear>>
    /\ UNCHANGED <<timer_left, held>>
    /\ UNCHANGED <<status, crashed, runs, next_execution_at, exception_list, job>>
    /\ UNCHANGED <<cfgVars, loopVars>>

Wrapper ==
    \E t \in Timers :
        \/ Wrapper79(t)
        \/ Wrapper82(t)
        \/ Wrapper83(t)
        \/ FunctionReturns(t)
        \/ FunctionRaises(t)
        \/ Wrapper84(t)
        \/ Wrapper85(t)
        \/ Wrapper86(t)
        \/ Wrapper91Load(t)
        \/ Wrapper91Append(t)
        \/ Wrapper92(t)
        \/ Wrapper94(t)
        \/ Wrapper96(t)

\* ------------------------------------------------------------ the caller
\* no execution is running: status is INITIATED, COMPLETED, or SCHEDULED with the timer not fired
Between == Running = {} /\ status \in {"INITIATED", "COMPLETED", "SCHEDULED"}

\* Stop that also cancels the Timer that has not fired (self.job.cancel())
StopCancelsTimer ==
    /\ stop_event' = TRUE
    /\ stopCalled' = TRUE
    /\ stopBetween' = (stopBetween \/ Between)
    /\ w_pc' = [t \in Timers |-> IF w_pc[t] = "timer" THEN "idle" ELSE w_pc[t]]
    /\ timer_left' = [t \in Timers |-> 0]
    /\ UNCHANGED held
    /\ UNCHANGED <<calls, fails, sinceClear, propagated>>
    /\ UNCHANGED <<status, crashed, runs, next_execution_at, exception_list, job>>
    /\ UNCHANGED <<cfgVars, loopVars>>

\* Stop that writes TERMINATED itself
StopWritesStatus ==
    /\ stop_event' = TRUE
    /\ status' = "TERMINATED"
    /\ stopCalled' = TRUE
    /\ stopBetween' = (stopBetween \/ Between)
    /\ UNCHANGED <<calls, fails, sinceClear, propagated>>
    /\ UNCHANGED <<crashed, runs, next_execution_at, exception_list, job>>
    /\ UNCHANGED <<cfgVars, loopVars, wrapVars>>

\* Job.stop(), lines 125-127, called by the owner of the Job
Stop ==
    /\ stop_event' = TRUE
    /\ stopCalled' = TRUE
    /\ stopBetween' = (stopBetween \/ Between)
    /\ UNCHANGED <<calls, fails, sinceClear, propagated>>
    /\ UNCHANGED <<status, crashed, runs, next_execution_at, exception_list, job>>
    /\ UNCHANGED <<cfgVars, loopVars, wrapVars>>

\* ClearException that also resets the crash counter
ClearResetsCrashed ==
    /\ exception_list' = <<>>
    /\ crashed' = 0
    /\ held' = [t \in Timers |-> FALSE]
    /\ sinceClear' = 0
    /\ UNCHANGED <<calls, fails, stopCalled, stopBetween, propagated>>
    /\ UNCHANGED <<w_pc, timer_left>>
    /\ UNCHANGED <<status, stop_event, runs, next_execution_at, job>>
    /\ UNCHANGED <<cfgVars, loopVars>>

\* Job.clear_exception(), lines 137-139: self._exception_list = []
ClearException ==
    /\ exception_list' = <<>>
    /\ held' = [t \in Timers |-> FALSE]
    /\ sinceClear' = 0
    /\ UNCHANGED <<calls, fails, stopCalled, stopBetween, propagated>>
    /\ UNCHANGED <<w_pc, timer_left>>
    /\ UNCHANGED <<status, stop_event, crashed, runs, next_execution_at, job>>
    /\ UNCHANGED <<cfgVars, loopVars>>

\* ------------------------------------------------------------------ time
\* one tick passes
Tick ==
    /\ \/ sleep_left > 0
       \/ next_execution_at > Past
       \/ \E t \in Timers : timer_left[t] > 0
       \/ l_pc = "l118r" /\ l_rem > Past
    /\ sleep_left' = Dec(sleep_left)
    /\ next_execution_at' = Later(next_execution_at)
    /\ timer_left' = [t \in Timers |-> Dec(timer_left[t])]
    /\ l_rem' = IF l_pc = "l118r" /\ l_rem > Past THEN l_rem - 1 ELSE l_rem
    /\ UNCHANGED <<l_pc, terminate, l_val, execute_in_seconds>>
    /\ UNCHANGED <<w_pc, held>>
    /\ UNCHANGED <<status, stop_event, crashed, runs, exception_list, job>>
    /\ UNCHANGED <<cfgVars, histVars>>

Next ==
    \/ Loop
    \/ Wrapper
    \/ Stop
    \/ ClearException
    \/ Tick

Spec == Init /\ [][Next]_vars

\* The threads of one Job under a fair scheduler: the loop thread and every Timer
\* thread keep taking steps, the function ends (by returning or by raising), and
\* time passes.  The caller owes nothing: stop() and clear_exception() may never
\* be called.  The liveness claims are checked for a short period and a low ceiling.
FairInit ==
    /\ Init
    /\ every_seconds \in {0, 1}
    /\ max_crashes \in {0, 1}
    /\ max_runs = 0 - 1

Fairness ==
    /\ WF_vars(Loop)
    /\ WF_vars(Tick)
    /\ \A t \in Timers :
         /\ WF_vars(Wrapper79(t)) /\ WF_vars(Wrapper82(t)) /\ WF_vars(Wrapper83(t))
         /\ WF_vars(FunctionReturns(t) \/ FunctionRaises(t))
         /\ WF_vars(Wrapper84(t)) /\ WF_vars(Wrapper85(t)) /\ WF_vars(Wrapper86(t))
         /\ WF_vars(Wrapper91Load(t)) /\ WF_vars(Wrapper91Append(t)) /\ WF_vars(Wrapper92(t))
         /\ WF_vars(Wrapper94(t)) /\ WF_vars(Wrapper96(t))

FairSpec == FairInit /\ [][Next]_vars /\ Fairness

\* ================================================================ claims

\* the edges of the status state machine
AllowedEdge(a, b) ==
    \/ b = "TERMINATED"
    \/ <<a, b>> \in { <<"INITIATED", "SCHEDULED">>, <<"COMPLETED", "SCHEDULED">>,
                      <<"SCHEDULED", "RUNNING">>, <<"RUNNING", "COMPLETED">>,
                      <<"RUNNING", "FAILED">> }

\* C1: every change of status is one of the edges INITIATED->SCHEDULED,
\* COMPLETED->SCHEDULED, SCHEDULED->RUNNING, RUNNING->COMPLETED, RUNNING->FAILED
\* or any->TERMINATED.
C1_OnlyAllowedEdges == [][status' # status => AllowedEdge(status, status')]_vars

\* the function has failed on every invocation, the caller has never called stop()
\* and has cleared no failure record
AlwaysFailingUnstopped == Returned = 0 /\ ~stopCalled /\ sinceClear = fails

\* a _wrapper has written FAILED
FailedWritten == propagated \/ \E t \in Timers : w_pc[t] = "l96"

\* a failed invocation whose _wrapper has not yet reached the end of the finally block
FailureInProgress == \E t \in Timers : w_pc[t] \in {"function", "l91", "l91a", "l92", "l94"}

C3_RunsAtMostMaxRuns == max_runs >= 0 => runs <= max_runs

\* C4: with max_runs = N >= 0, a positive period, an always-succeeding function
\* and no external stop(), the function is invoked at most N times.
C4_AtMostNInvocations ==
    (max_runs >= 0 /\ every_seconds > 0 /\ fails = 0 /\ ~stopCalled) => calls <= max_runs

\* C5: with every_seconds = 0 the function is never invoked a second time,
\* whether the one invocation returned or raised.
C5_OneShot == every_seconds = 0 => calls <= 1

\* C6: once status is FAILED it is FAILED in every later state.
C6_FailedIsStable == [][status = "FAILED" => status' = "FAILED"]_vars

\* the loop has written TERMINATED into status
LoopWroteTerminated == terminate /\ l_val = "TERMINATED"

\* C7: after the loop has written TERMINATED no _wrapper starts and the function
\* is not invoked.
C7_NoExecutionAfterTerminated ==
    [][LoopWroteTerminated => (calls' = calls /\ (status' = "RUNNING" => status = "RUNNING"))]_vars

\* the loop arms a Timer in this step
Arms == \E t \in Timers : w_pc[t] = "idle" /\ w_pc'[t] = "timer"

\* C8: once stop() has been called between executions, the loop's next handling of
\* the flag leaves status TERMINATED and the loop never arms another Timer.
C8_StopBetweenExecutions ==
    [][stopBetween =>
        /\ ~Arms
        /\ (l_pc = "l108s" /\ l_pc' = "l123" => status' = "TERMINATED")]_vars

\* C9: once the loop has exited and every armed execution has finished, the status
\* is TERMINATED or FAILED, never COMPLETED, RUNNING or SCHEDULED.
C9_FinalStatusIsTerminal ==
    (l_pc = "exited" /\ Active = {}) => status \in {"TERMINATED", "FAILED"}
\* the control flow of a Timer thread through _wrapper
WrapperFlow ==
    { <<"idle", "timer">>, <<"timer", "l82">>, <<"l82", "l83">>, <<"l83", "function">>,
      <<"function", "l84">>, <<"function", "l91">>, <<"l84", "l85">>, <<"l85", "l86">>,
      <<"l86", "l94">>, <<"l91", "l91a">>, <<"l91a", "l92">>, <<"l92", "l94">>,
      <<"l94", "l96">>, <<"l94", "idle">>, <<"l96", "idle">> }

\* a step of Timer thread t
WrapperOf(t) ==
    \/ Wrapper79(t) \/ Wrapper82(t) \/ Wrapper83(t) \/ FunctionReturns(t) \/ FunctionRaises(t)
    \/ Wrapper84(t) \/ Wrapper85(t) \/ Wrapper86(t) \/ Wrapper91Load(t) \/ Wrapper91Append(t)
    \/ Wrapper92(t) \/ Wrapper94(t) \/ Wrapper96(t)

\* the stop flag never keeps a Timer thread from its next step
StopDoesNotBlock ==
    \A t \in Timers :
        (/\ stop_event
         /\ w_pc[t] # "idle"
         /\ w_pc[t] = "timer" => (timer_left[t] <= 0 /\ calls < MaxCalls))
        => ENABLED WrapperOf(t)

Count(labels) == Cardinality({t \in Timers : w_pc[t] \in labels})

\* every outcome is recorded, whether the stop flag is set or not
OutcomeRecorded ==
    /\ runs + Count({"l84", "l85"}) = Returned
    /\ Returned = 0 => crashed + Count({"l91", "l91a", "l92"}) = fails
    /\ sinceClear = fails => Len(exception_list) + Count({"l91", "l91a"}) = fails

\* C10: stop() cancels and aborts nothing: a Timer thread that exists only moves
\* along the control flow of _wrapper (so it invokes the function exactly once and
\* ends only at the end of _wrapper), the stop flag never keeps it from its next
\* step, and its outcome is recorded in runs, crashed and the exception list.
C10_StopIsCooperative ==
    /\ [][\A t \in Timers : w_pc'[t] # w_pc[t] => <<w_pc[t], w_pc'[t]>> \in WrapperFlow]_vars
    /\ [](StopDoesNotBlock /\ OutcomeRecorded)

\* stop() was called while the first execution was running, the loop has already
\* written TERMINATED, and the execution has gone on to record its run
C10_Witness ==
    /\ stopCalled /\ ~stopBetween
    /\ LoopWroteTerminated
    /\ calls = 1 /\ runs = 1
    /\ \E t \in Timers : w_pc[t] = "l86"
\* C11: the step that performs stop() sets the flag and changes nothing else of the
\* Job or of its threads; it is enabled in every state (it never blocks); performed
\* with the flag already set it leaves the whole state of the Job unchanged; and no
\* step of any thread resets the flag.
C11_StopSetsOnlyTheFlag ==
    /\ [][Stop => /\ stop_event'
                  /\ UNCHANGED <<status, runs, crashed, next_execution_at, exception_list, job>>
                  /\ UNCHANGED <<loopVars, wrapVars>>]_vars
    /\ [][(Stop /\ stop_event) => UNCHANGED <<jobVars, loopVars, wrapVars>>]_vars
    /\ [][stop_event => stop_event']_vars
    /\ [](ENABLED Stop)

\* stop() has been called during an execution that has since recorded a failure
C11_Witness ==
    /\ stopCalled /\ ~stopBetween
    /\ status = "RUNNING"
    /\ crashed = 1
    /\ Len(exception_list) = 1
    /\ ~terminate

\* C12: clear_exception() empties the exception list, after which the exception
\* property reads None (as it does exactly when the list is empty), and it leaves
\* status, runs, crashed, the stop flag and next_execution_at unchanged.
C12_ClearOnlyEmptiesTheList ==
    /\ [][ClearException =>
            /\ exception_list' = <<>>
            /\ Exception'.none
            /\ UNCHANGED <<status, runs, crashed, stop_event, next_execution_at>>]_vars
    /\ [](Exception.none <=> Len(exception_list) = 0)
    /\ [](~Exception.none => Exception.list = exception_list)

\* the list has been cleared after a failure and the crash counter still counts it
C12_Witness ==
    /\ sinceClear < fails
    /\ Exception.none
    /\ crashed >= 1
    /\ status = "COMPLETED"

\* a Timer thread takes the step from label a to label b
Moves(a, b) == \E t \in Timers : w_pc[t] = a /\ w_pc'[t] = b

C14_ListCountsFailures ==
    Count({"l91", "l91a"}) = 0 => Len(exception_list) = sinceClear

\* C15: in every state in which no _wrapper is between lines 92 and 95, a status
\* other than FAILED comes with crashed <= max_crashes.
C15_CrashedWithinCeiling ==
    (status # "FAILED" /\ Count({"l94"}) = 0) => crashed <= max_crashes

\* C16: at most one Timer thread is armed or running.
C16_NeverReentrant == Cardinality(Active) <= 1

\* the loop polls while the execution it armed is still armed or running
C16_Witness ==
    /\ l_pc = "l111"
    /\ Cardinality(Active) = 1
    /\ calls >= 1
    /\ status \in {"RUNNING", "SCHEDULED"}

\* C17: once the _wrapper of a recoverable failure has ended (crashed is between 1
\* and max_crashes, no Timer thread is left) and the stop flag is not set, nothing
\* has propagated and status is COMPLETED, the status from which the loop arms the
\* next execution.
C17_RecoverableFailureContinues ==
    (crashed >= 1 /\ crashed <= max_crashes /\ ~stop_event /\ Active = {})
        => (status = "COMPLETED" /\ ~propagated)

\* C18: the delay the loop computes at line 118 and arms at lines 119-120 is never
\* negative.
C18_DelayNeverNegative ==
    /\ l_pc = "l119" => execute_in_seconds >= 0
    /\ \A t \in Timers : w_pc[t] = "timer" => timer_left[t] >= 0

\* C19: whenever status is SCHEDULED, an armed execution is pending or in progress.
C19_ScheduledHasExecution == status = "SCHEDULED" => Active # {}

\* C20: the loop exits only after it has seen the stop flag; a _wrapper that has
\* written FAILED sets the flag before it raises; and once FAILED has been written
\* the loop thread exits and no Timer thread of the Job is left.
C20_FailedJobEnds ==
    /\ [](l_pc = "exited" => stop_event)
    /\ [](propagated => stop_event)
    /\ (FailedWritten ~> (l_pc = "exited" /\ Active = {}))

C20_Witness ==
    /\ propagated
    /\ ~stopCalled
    /\ l_pc = "exited"
    /\ Active = {}
====
